---- MODULE Spec2Model ----
(***************************************************************************)
(* A model of python_lkvm/lkvm.py: the Client that shells out to           *)
(* /usr/bin/lkvm.  The only state the Client keeps is _root_helper; every  *)
(* public method is one action.  The host (effective uid, the process      *)
(* table, what a spawned lkvm prints) is the environment: it is drawn      *)
(* nondeterministically and recorded in `last` next to what the method     *)
(* did, so that the properties can relate the two.                         *)
(***************************************************************************)
EXTENDS Integers, Sequences, FiniteSets, TLC

VARIABLES
  root_helper,   \* Client._root_helper
  host,          \* the interpreter's os module: has os.geteuid?, its value
  last           \* the call the caller is looking at: inputs, what the
                 \* method handed to _execute, what was spawned, the result

vars == <<root_helper, host, last>>

-----------------------------------------------------------------------------
(* Python values and the two conversions the code applies to them.         *)

PyNone == [t |-> "None"]
PyStr(s) == [t |-> "str", s |-> s]
PyBool(b) == [t |-> "bool", b |-> b]
PyInt(n) == [t |-> "int", n |-> n]
\* a str held character by character: what communicate() captured, taken as
\* text, which is what output.split('\n') at line 291 needs
PyText(c) == [t |-> "text", c |-> c]
PyList(items) == [t |-> "list", items |-> items]

\* Python truth value testing, as used by every `if x:` / `not x`
Truthy(v) ==
  CASE v.t = "None" -> FALSE
    [] v.t = "str"  -> v.s # ""
    [] v.t = "bool" -> v.b
    [] v.t = "int"  -> v.n # 0
    [] v.t = "text" -> v.c # <<>>
    [] v.t = "list" -> v.items # <<>>

Digit == <<"0", "1", "2", "3", "4", "5", "6", "7", "8", "9">>

RECURSIVE Decimal(_)
Decimal(n) ==
  IF n < 10 THEN Digit[n + 1] ELSE Decimal(n \div 10) \o Digit[(n % 10) + 1]

\* str(c) of line 85
Str(v) ==
  CASE v.t = "None" -> "None"
    [] v.t = "str"  -> v.s
    [] v.t = "bool" -> IF v.b THEN "True" ELSE "False"
    [] v.t = "int"  -> IF v.n < 0 THEN "-" \o Decimal(0 - v.n) ELSE Decimal(v.n)

RECURSIVE StrAll(_)
StrAll(command) ==
  IF command = <<>> THEN <<>> ELSE <<Str(Head(command))>> \o StrAll(Tail(command))

\* ' '.join(command)
RECURSIVE Join(_)
Join(command) ==
  IF command = <<>> THEN ""
  ELSE IF Len(command) = 1 THEN command[1]
  ELSE command[1] \o " " \o Join(Tail(command))

-----------------------------------------------------------------------------
(* Results of a call: a returned value or a raised exception.              *)

Return(v) == [kind |-> "return", value |-> v]
Raise(exc, msg) == [kind |-> "raise", exc |-> exc, msg |-> msg]

LKVM_PATH == "/usr/bin/lkvm"

\* the names bound at module level (imports, assignments, classes): a bare
\* name that is not among them (nor a builtin) raises NameError when evaluated
ModuleGlobals ==
  {"logging", "os", "psutil", "six", "subprocess", "sys",
   "LKVM_PATH", "LOG", "LKVMException", "LKVMInstance", "Client"}

-----------------------------------------------------------------------------
(* Client._execute                                                         *)

\* what one spawned process does: spawning may fail, communicate() may fail,
\* otherwise the process ends with some stdout and stderr
ProcessRuns(stdouts, stderrs) ==
  {[spawn |-> "fail"]}
    \cup {[spawn |-> "ok", comm |-> "fail"]}
    \cup {[spawn |-> "ok", comm |-> "ok", stdout |-> o, stderr |-> e] :
            o \in stdouts, e \in stderrs}


\* (variant) the helper tested against None instead of for truth
Unprivileged_IsNone(rh, h) == h.has_geteuid /\ h.euid # 0 /\ rh = PyNone

\* line 76: the early return
Unprivileged(rh, h) == h.has_geteuid /\ h.euid # 0 /\ ~Truthy(rh)

\* lines 79-85: the argument vector of the process, every element str()'d
Command(rh, cmd, args) ==
  StrAll((IF Truthy(rh) THEN <<rh>> ELSE <<>>)
         \o <<PyStr(LKVM_PATH), PyStr(cmd)>> \o args)

\* lines 88-91: nohup <command> >/dev/null 2>&1 through the shell, not waited
\* for; nothing is returned
Background(command, proc) ==
  LET shell == Join(<<"nohup">> \o command) \o " >/dev/null 2>&1"
      obj == [shell |-> TRUE, argv |-> <<shell>>, run |-> [spawn |-> proc.spawn]]
  IN [spawned |-> <<obj>>,
      out |-> IF proc.spawn = "fail" THEN Raise("OSError", PyStr("errno"))
              ELSE Return(PyNone)]

\* lines 98-106: communicate() raised OSError.  The handler evaluates the name
\* ProcessExecutionError, which the module never binds; were it bound, an
\* OSError that is no instance of it would fall through to `result`, which
\* was never assigned
CommunicateFailed ==
  IF "ProcessExecutionError" \in ModuleGlobals
  THEN Raise("UnboundLocalError", PyStr("result"))
  ELSE Raise("NameError", PyStr("ProcessExecutionError"))


\* (variant) stderr looked at only when nothing came on stdout
Completed_StdoutFirst(proc) ==
  IF Truthy(PyText(proc.stderr)) /\ ~Truthy(PyText(proc.stdout))
  THEN Raise("LKVMException", PyText(proc.stderr))
  ELSE Return(PyText(proc.stdout))

\* lines 107-110
Completed(proc) ==
  IF Truthy(PyText(proc.stderr))
  THEN Raise("LKVMException", PyText(proc.stderr))
  ELSE Return(PyText(proc.stdout))

\* lines 93-110: Popen (outside the try block), communicate(), the result
Foreground(command, proc) ==
  LET obj == [shell |-> FALSE, argv |-> command, run |-> proc]
  IN [spawned |-> <<obj>>,
      out |-> IF proc.spawn = "fail" THEN Raise("OSError", PyStr("errno"))
              ELSE IF proc.comm = "fail" THEN CommunicateFailed
              ELSE Completed(proc)]

\* the result of _execute: the processes it spawned (none or one) and its
\* outcome
_execute(rh, h, cmd, args, background, proc) ==
  IF Unprivileged(rh, h)
  THEN [spawned |-> <<>>, out |-> Return(PyNone)]
  ELSE IF background
  THEN Background(Command(rh, cmd, args), proc)
  ELSE Foreground(Command(rh, cmd, args), proc)

\* a method's call of self._execute(cmd, args[, background=True]): what it
\* handed over, and what came of it
Invoke(rh, h, cmd, args, background, proc) ==
  LET r == _execute(rh, h, cmd, args, background, proc)
  IN [execd |-> <<[cmd |-> cmd, args |-> args, background |-> background,
                   result |-> r.out]>>,
      spawned |-> r.spawned,
      out |-> r.out]

\* `self._execute(...)` as a statement at the end of a method: an exception
\* propagates, a result is dropped and the method returns None
Dropped(r) ==
  [r EXCEPT !.out = IF @.kind = "raise" THEN @ ELSE Return(PyNone)]

\* a method that returns before it reaches _execute
NotInvoked(out) == [execd |-> <<>>, spawned |-> <<>>, out |-> out]

-----------------------------------------------------------------------------
(* Client.run and Client.sandbox                                           *)

Quoted(params) == PyStr("\"" \o Str(params) \o "\"")

run_params(c) ==
  <<PyStr("--cpus"), c.cpus, PyStr("--mem"), c.mem, PyStr("--shmem"), c.shmem>>
  \o (IF Truthy(c.name) THEN <<PyStr("--name"), c.name>> ELSE <<>>)
  \o (IF c.console \in {PyStr("serial"), PyStr("virtio"), PyStr("hv")}
      THEN <<PyStr("--console"), c.console>> ELSE <<>>)
  \o (IF Truthy(c.balloon) THEN <<PyStr("--balloon")>> ELSE <<>>)
  \o (IF Truthy(c.vnc) THEN <<PyStr("--vnc")>> ELSE <<>>)
  \o (IF Truthy(c.gtk) THEN <<PyStr("--gtk")>> ELSE <<>>)
  \o (IF Truthy(c.sdl) THEN <<PyStr("--sdl")>> ELSE <<>>)
  \o (IF Truthy(c.rng) THEN <<PyStr("--rng")>> ELSE <<>>)
  \o (IF Truthy(c.plan9) THEN <<PyStr("--9p")>> ELSE <<>>)
  \o (IF Truthy(c.disk) THEN <<PyStr("--disk"), c.disk>> ELSE <<>>)
  \o (IF Truthy(c.dev) THEN <<PyStr("--dev"), c.dev>> ELSE <<>>)
  \o (IF Truthy(c.tty) THEN <<PyStr("--tty"), c.tty>> ELSE <<>>)
  \o (IF Truthy(c.sandbox) THEN <<PyStr("--sandbox"), c.sandbox>> ELSE <<>>)
  \o (IF Truthy(c.hugetlbs) THEN <<PyStr("--hugetlbs"), c.hugetlbs>> ELSE <<>>)
  \o <<PyStr("--kernel"), c.kernel, PyStr("--params"), Quoted(c.params)>>
  \o (IF Truthy(c.initrd) THEN <<PyStr("--initrd"), c.initrd>> ELSE <<>>)
  \o (IF Truthy(c.firmware) THEN <<PyStr("--firmware"), c.firmware>> ELSE <<>>)
  \o <<PyStr("--network"), c.network>>
  \o (IF Truthy(c.no_dhcp) THEN <<PyStr("--no-dhcp")>> ELSE <<>>)

run(c, rh, h, proc) ==
  Dropped(Invoke(rh, h, "run", run_params(c), TRUE, proc))


\* (variant) console passed whenever it is given, --gtk put before --vnc
sandbox_params_Loose(c) ==
  <<PyStr("--cpus"), c.cpus, PyStr("--mem"), c.mem, PyStr("--shmem"), c.shmem>>
  \o (IF Truthy(c.name) THEN <<PyStr("--name"), c.name>> ELSE <<>>)
  \o (IF Truthy(c.console) THEN <<PyStr("--console"), c.console>> ELSE <<>>)
  \o (IF Truthy(c.balloon) THEN <<PyStr("--balloon")>> ELSE <<>>)
  \o (IF Truthy(c.gtk) THEN <<PyStr("--gtk")>> ELSE <<>>)
  \o (IF Truthy(c.vnc) THEN <<PyStr("--vnc")>> ELSE <<>>)
  \o (IF Truthy(c.sdl) THEN <<PyStr("--sdl")>> ELSE <<>>)
  \o (IF Truthy(c.rng) THEN <<PyStr("--rng")>> ELSE <<>>)
  \o (IF Truthy(c.plan9) THEN <<PyStr("--9p")>> ELSE <<>>)
  \o (IF Truthy(c.disk) THEN <<PyStr("--disk"), c.disk>> ELSE <<>>)
  \o (IF Truthy(c.dev) THEN <<PyStr("--dev"), c.dev>> ELSE <<>>)
  \o (IF Truthy(c.tty) THEN <<PyStr("--tty"), c.tty>> ELSE <<>>)
  \o (IF Truthy(c.sandbox) THEN <<PyStr("--sandbox"), c.sandbox>> ELSE <<>>)
  \o (IF Truthy(c.hugetlbs) THEN <<PyStr("--hugetlbs"), c.hugetlbs>> ELSE <<>>)
  \o <<PyStr("--kernel"), c.kernel, PyStr("--params"), Quoted(c.params)>>
  \o (IF Truthy(c.initrd) THEN <<PyStr("--initrd"), c.initrd>> ELSE <<>>)
  \o (IF Truthy(c.firmware) THEN <<PyStr("--firmware"), c.firmware>> ELSE <<>>)
  \o <<PyStr("--network"), c.network>>
  \o (IF Truthy(c.no_dhcp) THEN <<PyStr("--no-dhcp")>> ELSE <<>>)

sandbox_params(c) ==
  <<PyStr("--cpus"), c.cpus, PyStr("--mem"), c.mem, PyStr("--shmem"), c.shmem>>
  \o (IF Truthy(c.name) THEN <<PyStr("--name"), c.name>> ELSE <<>>)
  \o (IF c.console \in {PyStr("serial"), PyStr("virtio"), PyStr("hv")}
      THEN <<PyStr("--console"), c.console>> ELSE <<>>)
  \o (IF Truthy(c.balloon) THEN <<PyStr("--balloon")>> ELSE <<>>)
  \o (IF Truthy(c.vnc) THEN <<PyStr("--vnc")>> ELSE <<>>)
  \o (IF Truthy(c.gtk) THEN <<PyStr("--gtk")>> ELSE <<>>)
  \o (IF Truthy(c.sdl) THEN <<PyStr("--sdl")>> ELSE <<>>)
  \o (IF Truthy(c.rng) THEN <<PyStr("--rng")>> ELSE <<>>)
  \o (IF Truthy(c.plan9) THEN <<PyStr("--9p")>> ELSE <<>>)
  \o (IF Truthy(c.disk) THEN <<PyStr("--disk"), c.disk>> ELSE <<>>)
  \o (IF Truthy(c.dev) THEN <<PyStr("--dev"), c.dev>> ELSE <<>>)
  \o (IF Truthy(c.tty) THEN <<PyStr("--tty"), c.tty>> ELSE <<>>)
  \o (IF Truthy(c.sandbox) THEN <<PyStr("--sandbox"), c.sandbox>> ELSE <<>>)
  \o (IF Truthy(c.hugetlbs) THEN <<PyStr("--hugetlbs"), c.hugetlbs>> ELSE <<>>)
  \o <<PyStr("--kernel"), c.kernel, PyStr("--params"), Quoted(c.params)>>
  \o (IF Truthy(c.initrd) THEN <<PyStr("--initrd"), c.initrd>> ELSE <<>>)
  \o (IF Truthy(c.firmware) THEN <<PyStr("--firmware"), c.firmware>> ELSE <<>>)
  \o <<PyStr("--network"), c.network>>
  \o (IF Truthy(c.no_dhcp) THEN <<PyStr("--no-dhcp")>> ELSE <<>>)

sandbox(c, rh, h, proc) ==
  Dropped(Invoke(rh, h, "sandbox", sandbox_params(c), TRUE, proc))

-----------------------------------------------------------------------------
(* Client.setup, pause, resume, stop, balloon                              *)

setup(name, rh, h, proc) ==
  Invoke(rh, h, "setup", <<PyStr("--name"), name>>, FALSE, proc)


\* (variant) pause handing back what _execute returned
pause_Returning(all, name, rh, h, proc) ==
  IF Truthy(all)
  THEN Invoke(rh, h, "pause", <<PyStr("--all")>>, FALSE, proc)
  ELSE IF Truthy(name)
  THEN Invoke(rh, h, "pause", <<PyStr("--name"), name>>, FALSE, proc)
  ELSE NotInvoked(Return(PyNone))

pause(all, name, rh, h, proc) ==
  IF Truthy(all)
  THEN Dropped(Invoke(rh, h, "pause", <<PyStr("--all")>>, FALSE, proc))
  ELSE IF Truthy(name)
  THEN Dropped(Invoke(rh, h, "pause", <<PyStr("--name"), name>>, FALSE, proc))
  ELSE NotInvoked(Return(PyNone))

resume(all, name, rh, h, proc) ==
  IF Truthy(all)
  THEN Dropped(Invoke(rh, h, "resume", <<PyStr("--all")>>, FALSE, proc))
  ELSE IF Truthy(name)
  THEN Dropped(Invoke(rh, h, "resume", <<PyStr("--name"), name>>, FALSE, proc))
  ELSE NotInvoked(Return(PyNone))


\* (variant) stop without the final `else: return`
stop_NoEarlyReturn(all, name, rh, h, proc) ==
  IF Truthy(all)
  THEN Dropped(Invoke(rh, h, "stop", <<PyStr("--all")>>, FALSE, proc))
  ELSE IF Truthy(name)
  THEN Dropped(Invoke(rh, h, "stop", <<PyStr("--name"), name>>, FALSE, proc))
  ELSE Dropped(Invoke(rh, h, "stop", <<>>, FALSE, proc))

stop(all, name, rh, h, proc) ==
  IF Truthy(all)
  THEN Dropped(Invoke(rh, h, "stop", <<PyStr("--all")>>, FALSE, proc))
  ELSE IF Truthy(name)
  THEN Dropped(Invoke(rh, h, "stop", <<PyStr("--name"), name>>, FALSE, proc))
  ELSE NotInvoked(Return(PyNone))


\* (variant) every mode but "inflate" taken as deflate
balloon_params_ElseDeflate(name, amount, balloon_options) ==
  <<PyStr("name"), name>>
  \o (IF balloon_options = PyStr("inflate") THEN <<PyStr("--inflate"), amount>>
      ELSE <<PyStr("--deflate"), amount>>)

balloon_params(name, amount, balloon_options) ==
  <<PyStr("name"), name>>
  \o (IF balloon_options = PyStr("inflate") THEN <<PyStr("--inflate"), amount>>
      ELSE IF balloon_options = PyStr("deflate") THEN <<PyStr("--deflate"), amount>>
      ELSE <<>>)

balloon(name, amount, balloon_options, rh, h, proc) ==
  Dropped(Invoke(rh, h, "balloon",
                 balloon_params(name, amount, balloon_options), FALSE, proc))

\* line 351: stat returns before anything else
stat(memory, all, name) == NotInvoked(Return(PyNone))

\* os.path.isfile(LKVM_PATH): no process, the answer is the file system's
is_supported(isfile) == NotInvoked(Return(PyBool(isfile)))

-----------------------------------------------------------------------------
(* Client._get_instance_info and Client.list_instances.  Text that the     *)
(* code takes apart is held character by character.                        *)

\* str.split(sep): the pieces between the occurrences of sep, empty ones kept
RECURSIVE SplitOn(_, _)
SplitOn(s, sep) ==
  IF \A i \in 1..Len(s) : s[i] # sep THEN <<s>>
  ELSE LET i == CHOOSE k \in 1..Len(s) :
                  s[k] = sep /\ \A j \in 1..(k - 1) : s[j] # sep
       IN <<SubSeq(s, 1, i - 1)>> \o SplitOn(SubSeq(s, i + 1, Len(s)), sep)

Whitespace == {" ", "\t", "\n", "\r"}

\* str.split(): the runs of non-whitespace
RECURSIVE Fields(_)
Fields(s) ==
  IF s = <<>> THEN <<>>
  ELSE IF s[1] \in Whitespace THEN Fields(Tail(s))
  ELSE LET stops == {k \in 1..Len(s) : s[k] \in Whitespace}
           n == IF stops = {} THEN Len(s) + 1
                ELSE CHOOSE k \in stops : \A j \in stops : k <= j
       IN <<SubSeq(s, 1, n - 1)>> \o Fields(SubSeq(s, n, Len(s)))

IsDecimal(s) == s # <<>> /\ \A i \in 1..Len(s) : \E d \in 1..10 : Digit[d] = s[i]

DigitValue(ch) == (CHOOSE d \in 1..10 : Digit[d] = ch) - 1

\* int(pid) of a string of decimal digits
RECURSIVE IntOf(_)
IntOf(s) ==
  IF Len(s) = 1 THEN DigitValue(s[1])
  ELSE 10 * IntOf(SubSeq(s, 1, Len(s) - 1)) + DigitValue(s[Len(s)])


\* (variant) a last flag without a value left out
Props_SkipUnpaired(args) ==
  LET starts == {i \in 1..Len(args) : i % 2 = 1 /\ i + 1 <= Len(args)}
      key(i) == SubSeq(args[i], 3, Len(args[i]))
      keys == {key(i) : i \in starts}
      at(k) == CHOOSE i \in starts :
                 key(i) = k /\ \A j \in starts : key(j) = k => j <= i
  IN Return([k \in keys |-> args[at(k) + 1]])

\* line 61: {args[i][2:]: args[i+1] for i in range(0, len(args), 2)}; here the
\* indices count from 1.  A later pair with the same key wins.
Props(args) ==
  LET starts == {i \in 1..Len(args) : i % 2 = 1}
  IN IF \E i \in starts : i + 1 > Len(args)
     THEN Raise("IndexError", PyStr("list index out of range"))
     ELSE LET key(i) == SubSeq(args[i], 3, Len(args[i]))
              keys == {key(i) : i \in starts}
              at(k) == CHOOSE i \in starts :
                         key(i) = k /\ \A j \in starts : key(j) = k => j <= i
          IN Return([k \in keys |-> args[at(k) + 1]])

\* lines 57-60: psutil.Process(pid) raised psutil.NoSuchProcess.  The except
\* clause names NoSuchProcess unqualified, which the module never binds.
ProcessGone(pid) ==
  IF "NoSuchProcess" \in ModuleGlobals
  THEN Raise("LKVMException", [fmt |-> "PID %s not found", arg |-> pid])
  ELSE Raise("NameError", PyStr("NoSuchProcess"))

\* table: the host's process table when the lookup is made, pid -> cmdline
_get_instance_info(pid, table) ==
  IF pid.t = "text" /\ ~IsDecimal(pid.c)
  THEN Raise("ValueError", PyStr("invalid literal for int()"))
  ELSE LET n == IF pid.t = "text" THEN IntOf(pid.c) ELSE pid.n
       IN IF n \notin DOMAIN table THEN ProcessGone(n)
          ELSE Props(SubSeq(table[n], 3, Len(table[n])))

K_pid == <<"p", "i", "d">>
K_name == <<"n", "a", "m", "e">>
K_state == <<"s", "t", "a", "t", "e">>

\* lines 295-298: the class made from props, then its pid, name and state set
Instance(props, ins) ==
  [k \in DOMAIN props \cup {K_pid, K_name, K_state} |->
     IF k = K_pid THEN ins[1]
     ELSE IF k = K_name THEN ins[2]
     ELSE IF k = K_state THEN ins[3]
     ELSE props[k]]

\* lines 293-299, one line after the other; an exception ends the loop
RECURSIVE Records(_, _, _)
Records(lines, table, instances) ==
  IF lines = <<>> THEN Return(PyList(instances))
  ELSE LET ins == Fields(Head(lines))
       IN IF Len(ins) < 1
          THEN Raise("IndexError", PyStr("list index out of range"))
          ELSE LET info == _get_instance_info(PyText(ins[1]), table)
               IN IF info.kind = "raise" THEN info
                  ELSE IF Len(ins) < 3
                  THEN Raise("IndexError", PyStr("list index out of range"))
                  ELSE Records(Tail(lines), table,
                               Append(instances, Instance(info.value, ins)))

\* lines 289-301
Parse(output, table) ==
  IF ~Truthy(output) THEN Return(PyList(<<>>))
  ELSE LET results == SplitOn(output.c, "\n")
       IN IF Len(results) > 2
          THEN Records(SubSeq(results, 3, Len(results) - 1), table, <<>>)
          ELSE Return(PyList(<<>>))

list_params(r, rootfs) ==
  (IF Truthy(r) THEN <<PyStr("--run")>> ELSE <<>>)
  \o (IF Truthy(rootfs) THEN <<PyStr("--rootfs")>> ELSE <<>>)

list_instances(r, rootfs, rh, h, proc, table) ==
  LET res == Invoke(rh, h, "list", list_params(r, rootfs), FALSE, proc)
  IN IF res.out.kind = "raise" THEN res
     ELSE [res EXCEPT !.out = Parse(res.out.value, table)]

-----------------------------------------------------------------------------
(* The inputs the callers and the host supply.                             *)

MaxOptions == 2   \* optional run/sandbox inputs given together
MaxLines == 2     \* data lines of a list output
MaxPid == 2       \* process ids of the host

HelperValues == {PyNone, PyStr(""), PyStr("sudo")}
AllValues == {PyBool(FALSE), PyBool(TRUE)}
NameValues == {PyNone, PyStr(""), PyStr("vm1")}
AmountValues == {PyInt(512)}
ModeValues == {PyStr("inflate"), PyStr("deflate"), PyStr("shrink"), PyStr("")}
ConsoleValues ==
  {PyStr("serial"), PyStr("virtio"), PyStr("hv"), PyStr("vga"), PyNone}

Options ==
  {"name", "disk", "balloon", "vnc", "gtk", "sdl", "rng", "plan9", "dev",
   "tty", "sandbox", "hugetlbs", "initrd", "firmware", "no_dhcp"}

\* run(...) / sandbox(...) called with the optional inputs in `given` supplied
\* and the others left at their defaults (None, False) or, with `blank`,
\* passed as the empty string and 0
RunConfig(given, console, blank) ==
  LET text(o, v) == IF o \in given THEN PyStr(v)
                    ELSE IF blank THEN PyStr("") ELSE PyNone
      flag(o) == IF o \in given THEN PyBool(TRUE)
                 ELSE IF blank THEN PyInt(0) ELSE PyBool(FALSE)
  IN [cpus |-> PyInt(2), mem |-> PyInt(512), shmem |-> PyStr("16M"),
      console |-> console, kernel |-> PyStr("/boot/vmlinuz"),
      params |-> PyStr("root=/dev/vda rw"), network |-> PyStr("mode=user"),
      name |-> text("name", "vm1"), disk |-> text("disk", "/img"),
      balloon |-> flag("balloon"), vnc |-> flag("vnc"), gtk |-> flag("gtk"),
      sdl |-> flag("sdl"), rng |-> flag("rng"), plan9 |-> flag("plan9"),
      dev |-> text("dev", "/dev/kvm"), tty |-> text("tty", "0"),
      sandbox |-> text("sandbox", "/sb.sh"),
      hugetlbs |-> text("hugetlbs", "/huge"),
      initrd |-> text("initrd", "/initrd"),
      firmware |-> text("firmware", "/fw"), no_dhcp |-> flag("no_dhcp")]

RunConfigs(k) ==
  {RunConfig(given, console, blank) :
     given \in {g \in SUBSET Options : Cardinality(g) <= k},
     console \in ConsoleValues, blank \in BOOLEAN}

Outs == {<<>>, <<"o", "k">>}
Errs == {<<>>, <<"e", "r", "r">>}

\* a process of run/sandbox (its output goes to /dev/null), and of the others
DetachedRuns == ProcessRuns({<<>>}, {<<>>})
ForegroundRuns == ProcessRuns(Outs, Errs)

\* what lkvm list prints and what the process table holds
RECURSIVE PidText(_)
PidText(n) ==
  IF n < 10 THEN <<Digit[n + 1]>>
  ELSE PidText(n \div 10) \o <<Digit[(n % 10) + 1]>>

Header1 == <<" ", "P", "I", "D", " ", "N", "A", "M", "E", " ", "S">>
Header2 == <<"-", "-", "-">>
\* the line lkvm list prints for an instance: pid, name and state in columns
DataFields(pid) ==
  <<PidText(pid), <<"v", "m">> \o PidText(pid),
    IF pid % 2 = 1 THEN <<"r", "u", "n">> ELSE <<"p", "a", "u", "s", "e", "d">>>>
DataLine(pid) ==
  <<" ", " ">> \o DataFields(pid)[1] \o <<" ">> \o DataFields(pid)[2]
    \o <<" ", "\t">> \o DataFields(pid)[3]
BlankLine == <<>>
ShortLine == <<"1", " ", "v", "m">>
NoPidLine == <<"x", " ", "v", "m", " ", "r", "u", "n">>

Lines == {DataLine(pid) : pid \in 1..MaxPid} \cup {ShortLine, NoPidLine}

RECURSIVE JoinLines(_)
JoinLines(ls) ==
  IF ls = <<>> THEN <<>>
  ELSE IF Len(ls) = 1 THEN ls[1]
  ELSE ls[1] \o <<"\n">> \o JoinLines(Tail(ls))

\* the header, up to n lines, and the end of the output: a final newline
\* (what split leaves as one last blank line), none, or a blank line more
ListOutputs(n) ==
  {<<>>, Header1, JoinLines(<<Header1, Header2>>)}
    \cup {JoinLines(<<Header1, Header2>> \o ls \o end) :
            ls \in UNION {[1..k -> Lines] : k \in 0..n},
            end \in {<<>>, <<BlankLine>>, <<BlankLine, BlankLine>>}}

Tok_lkvm == <<"l", "k", "v", "m">>
Tok_run == <<"r", "u", "n">>
Tok_name == <<"-", "-", "n", "a", "m", "e">>
Tok_vm == <<"v", "m">>
Tok_cpus == <<"-", "-", "c", "p", "u", "s">>
Tok_2 == <<"2">>
Tok_balloon == <<"-", "-", "b", "a", "l", "l", "o", "o", "n">>

\* launch arguments with every flag followed by a value, with a flag that
\* takes none, and of a process that shows none
Cmdlines ==
  {<<Tok_lkvm, Tok_run, Tok_name, Tok_vm, Tok_cpus, Tok_2>>,
   <<Tok_lkvm, Tok_run, Tok_name, Tok_vm, Tok_balloon>>,
   <<>>}

ProcTables == UNION {[D -> Cmdlines] : D \in SUBSET (1..MaxPid)}

\* lkvm list printing at most one line, and up to MaxLines lines
FewListRuns == ProcessRuns(ListOutputs(1), Errs)
AnyListRuns == ProcessRuns(ListOutputs(MaxLines), Errs)

-----------------------------------------------------------------------------
(* The actions: one per public method, the root_helper setter, and the     *)
(* caller letting go of the result before its next call (the client is     *)
(* single-threaded and synchronous).                                       *)

Idle == [op |-> "idle"]

Called(op, input, res) ==
  [op |-> op, input |-> input, execd |-> res.execd,
   spawned |-> res.spawned, out |-> res.out]

Init ==
  /\ root_helper = PyNone
  /\ host \in {[has_geteuid |-> TRUE, euid |-> 0],
               [has_geteuid |-> TRUE, euid |-> 1000],
               [has_geteuid |-> FALSE, euid |-> 0]}
  /\ last = Idle

SetRootHelper ==
  /\ last = Idle
  /\ \E value \in HelperValues : root_helper' = value
  /\ UNCHANGED <<host, last>>

RunWith(configs) ==
  /\ last = Idle
  /\ \E c \in configs, proc \in DetachedRuns :
       last' = Called("run", c, run(c, root_helper, host, proc))
  /\ UNCHANGED <<root_helper, host>>

SandboxWith(configs) ==
  /\ last = Idle
  /\ \E c \in configs, proc \in DetachedRuns :
       last' = Called("sandbox", c, sandbox(c, root_helper, host, proc))
  /\ UNCHANGED <<root_helper, host>>

\* at most one optional input given
FewConfigs == RunConfigs(1)

CallRun == RunWith(FewConfigs)

CallSandbox == SandboxWith(FewConfigs)

CallSetup ==
  /\ last = Idle
  /\ \E name \in NameValues, proc \in ForegroundRuns :
       last' = Called("setup", [name |-> name],
                      setup(name, root_helper, host, proc))
  /\ UNCHANGED <<root_helper, host>>

CallPause ==
  /\ last = Idle
  /\ \E all \in AllValues, name \in NameValues, proc \in ForegroundRuns :
       last' = Called("pause", [all |-> all, name |-> name],
                      pause(all, name, root_helper, host, proc))
  /\ UNCHANGED <<root_helper, host>>

CallResume ==
  /\ last = Idle
  /\ \E all \in AllValues, name \in NameValues, proc \in ForegroundRuns :
       last' = Called("resume", [all |-> all, name |-> name],
                      resume(all, name, root_helper, host, proc))
  /\ UNCHANGED <<root_helper, host>>

CallStop ==
  /\ last = Idle
  /\ \E all \in AllValues, name \in NameValues, proc \in ForegroundRuns :
       last' = Called("stop", [all |-> all, name |-> name],
                      stop(all, name, root_helper, host, proc))
  /\ UNCHANGED <<root_helper, host>>

CallBalloon ==
  /\ last = Idle
  /\ \E name \in NameValues, amount \in AmountValues, mode \in ModeValues,
        proc \in ForegroundRuns :
       last' = Called("balloon",
                      [name |-> name, amount |-> amount, balloon_options |-> mode],
                      balloon(name, amount, mode, root_helper, host, proc))
  /\ UNCHANGED <<root_helper, host>>

ListWith(flags, runs) ==
  /\ last = Idle
  /\ \E r \in flags, rootfs \in flags, table \in ProcTables,
        proc \in runs :
       last' = Called("list_instances",
                      [run |-> r, rootfs |-> rootfs, table |-> table],
                      list_instances(r, rootfs, root_helper, host, proc, table))
  /\ UNCHANGED <<root_helper, host>>

CallList == ListWith(AllValues, FewListRuns)

CallStat ==
  /\ last = Idle
  /\ \E memory \in AllValues, all \in AllValues, name \in NameValues :
       last' = Called("stat", [memory |-> memory, all |-> all, name |-> name],
                      stat(memory, all, name))
  /\ UNCHANGED <<root_helper, host>>

CallIsSupported ==
  /\ last = Idle
  /\ \E isfile \in BOOLEAN :
       last' = Called("is_supported", [isfile |-> isfile], is_supported(isfile))
  /\ UNCHANGED <<root_helper, host>>

Consume ==
  /\ last # Idle
  /\ last' = Idle
  /\ UNCHANGED <<root_helper, host>>

Next ==
  \/ SetRootHelper
  \/ CallRun
  \/ CallSandbox
  \/ CallSetup
  \/ CallPause
  \/ CallResume
  \/ CallStop
  \/ CallBalloon
  \/ CallList
  \/ CallStat
  \/ CallIsSupported
  \/ Consume

Spec == Init /\ [][Next]_vars

\* every combination of up to MaxOptions optional inputs of run and sandbox
AnyConfigs == RunConfigs(MaxOptions)

CallRunAny == RunWith(AnyConfigs)

CallSandboxAny == SandboxWith(AnyConfigs)

NextArgs == SetRootHelper \/ CallRunAny \/ CallSandboxAny \/ Consume

SpecArgs == Init /\ [][NextArgs]_vars

\* list_instances() with its default flags: list outputs of up to MaxLines
\* lines against every process table
CallListAny == ListWith({PyBool(TRUE)}, AnyListRuns)

NextList == CallListAny \/ Consume

SpecList == Init /\ [][NextList]_vars

-----------------------------------------------------------------------------
(* Properties.                                                             *)

\* the call under view reached _execute
Reached == last # Idle /\ Len(last.execd) = 1

\* the caller may not run lkvm: an effective uid that is not root's, and no
\* helper (a host whose os has no geteuid has no effective uid to speak of)
MayNotRun == host.has_geteuid /\ host.euid # 0 /\ root_helper \in {PyNone, PyStr("")}

\* a foreground process was spawned and communicate() came back
Finished ==
  /\ Reached
  /\ ~last.execd[1].background
  /\ Len(last.spawned) = 1
  /\ last.spawned[1].run.spawn = "ok"
  /\ last.spawned[1].run.comm = "ok"

NoSelector ==
  /\ last.input.name \in {PyNone, PyStr("")}
  /\ last.op \in {"pause", "resume", "stop"} => last.input.all = PyBool(FALSE)

\* C1 as stated: a call of run, pause, resume, stop or balloon that supplies
\* neither `all` nor a name invokes no external process and raises no error.
C1_AsStated ==
  (last.op \in {"run", "pause", "resume", "stop", "balloon"} /\ NoSelector)
    => (last.spawned = <<>> /\ last.out.kind = "return")

\* C1 as amended: a call of pause, resume or stop that supplies neither `all`
\* nor a name never reaches the execution primitive, spawns nothing and
\* returns without error, whatever the privilege and the helper; run and
\* balloon hand their command to the primitive whether a name is given or not.
C1_SelectorNoOp ==
  /\ (last.op \in {"pause", "resume", "stop"} /\ NoSelector)
       => (last.execd = <<>> /\ last.spawned = <<>> /\ last.out = Return(PyNone))
  /\ last.op \in {"run", "balloon"} => Len(last.execd) = 1

C1_Witness ==
  /\ last.op = "stop" /\ NoSelector
  /\ host.has_geteuid /\ host.euid = 0

\* C2: whenever a method reaches the execution primitive while the effective
\* uid is not root and the helper currently set is None or empty, nothing is
\* spawned, nothing is raised and the primitive returns None.
C2_UnprivilegedNoOp ==
  (Reached /\ MayNotRun)
    => /\ last.op \in {"run", "setup", "pause", "resume", "stop", "balloon",
                       "sandbox", "list_instances"}
       /\ last.spawned = <<>>
       /\ last.execd[1].result = Return(PyNone)
       /\ last.out.kind = "return"

C2_Witness ==
  /\ Reached /\ MayNotRun
  /\ root_helper = PyStr("")
  /\ last.op = "list_instances"

\* C3: in foreground mode, a process that ends with non-empty stderr makes the
\* primitive raise LKVMException carrying that stderr, whatever is on stdout;
\* with empty stderr the primitive returns the stdout as captured.
C3_StderrDecides ==
  Finished =>
    LET p == last.spawned[1].run
    IN /\ p.stderr # <<>>
            => last.execd[1].result = Raise("LKVMException", PyText(p.stderr))
       /\ p.stderr = <<>> => last.execd[1].result = Return(PyText(p.stdout))

C3_Witness ==
  /\ Finished
  /\ last.spawned[1].run.stderr # <<>>
  /\ last.spawned[1].run.stdout # <<>>

\* C5 as stated: in foreground mode, a process that cannot be spawned or
\* communicated with makes the primitive raise LKVMException.
C5_AsStated ==
  (/\ Reached
   /\ ~last.execd[1].background
   /\ Len(last.spawned) = 1
   /\ \/ last.spawned[1].run.spawn = "fail"
      \/ last.spawned[1].run.comm = "fail")
    => (/\ last.execd[1].result.kind = "raise"
        /\ last.execd[1].result.exc = "LKVMException")

\* C7: what run and sandbox hand to the primitive.  The vector is the list
\* below, in this order, each entry present iff its condition holds, an
\* entry being the flag followed by its value if it has one; the command is
\* the method's own and background execution is asked for.
C7_Given(v) == v \notin {PyNone, PyStr(""), PyBool(FALSE), PyInt(0)}

C7_Entries(c) ==
  <<[flag |-> "--cpus", present |-> TRUE, value |-> <<c.cpus>>],
    [flag |-> "--mem", present |-> TRUE, value |-> <<c.mem>>],
    [flag |-> "--shmem", present |-> TRUE, value |-> <<c.shmem>>],
    [flag |-> "--name", present |-> C7_Given(c.name), value |-> <<c.name>>],
    [flag |-> "--console",
     present |-> \E k \in {"serial", "virtio", "hv"} : c.console = PyStr(k),
     value |-> <<c.console>>],
    [flag |-> "--balloon", present |-> C7_Given(c.balloon), value |-> <<>>],
    [flag |-> "--vnc", present |-> C7_Given(c.vnc), value |-> <<>>],
    [flag |-> "--gtk", present |-> C7_Given(c.gtk), value |-> <<>>],
    [flag |-> "--sdl", present |-> C7_Given(c.sdl), value |-> <<>>],
    [flag |-> "--rng", present |-> C7_Given(c.rng), value |-> <<>>],
    [flag |-> "--9p", present |-> C7_Given(c.plan9), value |-> <<>>],
    [flag |-> "--disk", present |-> C7_Given(c.disk), value |-> <<c.disk>>],
    [flag |-> "--dev", present |-> C7_Given(c.dev), value |-> <<c.dev>>],
    [flag |-> "--tty", present |-> C7_Given(c.tty), value |-> <<c.tty>>],
    [flag |-> "--sandbox", present |-> C7_Given(c.sandbox), value |-> <<c.sandbox>>],
    [flag |-> "--hugetlbs", present |-> C7_Given(c.hugetlbs), value |-> <<c.hugetlbs>>],
    [flag |-> "--kernel", present |-> TRUE, value |-> <<c.kernel>>],
    [flag |-> "--params", present |-> TRUE,
     value |-> <<PyStr("\"" \o c.params.s \o "\"")>>],
    [flag |-> "--initrd", present |-> C7_Given(c.initrd), value |-> <<c.initrd>>],
    [flag |-> "--firmware", present |-> C7_Given(c.firmware), value |-> <<c.firmware>>],
    [flag |-> "--network", present |-> TRUE, value |-> <<c.network>>],
    [flag |-> "--no-dhcp", present |-> C7_Given(c.no_dhcp), value |-> <<>>]>>

RECURSIVE C7_Vector(_)
C7_Vector(entries) ==
  IF entries = <<>> THEN <<>>
  ELSE (IF Head(entries).present
        THEN <<PyStr(Head(entries).flag)>> \o Head(entries).value
        ELSE <<>>) \o C7_Vector(Tail(entries))

C7_ArgumentVector ==
  last.op \in {"run", "sandbox"}
    => /\ Len(last.execd) = 1
       /\ last.execd[1].cmd = last.op
       /\ last.execd[1].background
       /\ last.execd[1].args = C7_Vector(C7_Entries(last.input))

C7_Witness ==
  /\ last.op = "sandbox"
  /\ last.input.console = PyStr("vga")
  /\ last.input.gtk = PyBool(TRUE) /\ last.input.vnc = PyBool(TRUE)
  /\ last.input.name = PyStr("")
  /\ Len(last.spawned) = 1

\* C8: balloon hands `name n` to the primitive, followed by `--inflate a` for
\* mode "inflate", `--deflate a` for mode "deflate" and nothing for any other
\* mode; in that last case the command is issued all the same (a process is
\* spawned unless the primitive declines for lack of privilege) and the call
\* raises nothing but what the primitive raised.
C8_OtherMode == last.input.balloon_options \notin {PyStr("inflate"), PyStr("deflate")}

C8_BalloonFlags ==
  last.op = "balloon"
    => LET n == last.input.name
           a == last.input.amount
           m == last.input.balloon_options
       IN /\ Len(last.execd) = 1
          /\ last.execd[1].cmd = "balloon"
          /\ m = PyStr("inflate")
               => last.execd[1].args = <<PyStr("name"), n, PyStr("--inflate"), a>>
          /\ m = PyStr("deflate")
               => last.execd[1].args = <<PyStr("name"), n, PyStr("--deflate"), a>>
          /\ C8_OtherMode
               => /\ last.execd[1].args = <<PyStr("name"), n>>
                  /\ ~MayNotRun => Len(last.spawned) = 1
                  /\ last.out.kind = "raise" => last.out = last.execd[1].result
                  /\ (Finished /\ last.spawned[1].run.stderr = <<>>)
                       => last.out.kind = "return"

C8_Witness ==
  /\ last.op = "balloon" /\ C8_OtherMode
  /\ Finished /\ last.spawned[1].run.stderr = <<>>
  /\ last.spawned[1].argv = <<"sudo", "/usr/bin/lkvm", "balloon", "name", "vm1">>

\* C9 as stated: on success run and sandbox return nothing, and pause,
\* resume, stop and balloon return the stdout of the process they ran.
C9_AsStated ==
  (last # Idle /\ last.out.kind = "return")
    => /\ last.op \in {"run", "sandbox"} => last.out.value = PyNone
       /\ (last.op \in {"pause", "resume", "stop", "balloon"} /\ Finished)
            => last.out.value = PyText(last.spawned[1].run.stdout)

\* C9 as amended: on success run and sandbox return nothing, and so do
\* pause, resume, stop and balloon, which drop the captured stdout; of the
\* foreground operations only setup returns the stdout of the process it ran.
C9_ReturnValues ==
  (last # Idle /\ last.out.kind = "return")
    => /\ last.op \in {"run", "sandbox", "pause", "resume", "stop", "balloon"}
            => last.out.value = PyNone
       /\ (last.op = "setup" /\ Finished)
            => last.out.value = PyText(last.spawned[1].run.stdout)

C9_Witness ==
  /\ last.op = "pause"
  /\ Finished
  /\ last.spawned[1].run.stdout = <<"o", "k">>
  /\ last.out = Return(PyNone)

\* list output made of the two header lines, one data line per listed pid and
\* one blank line
C6_Listing(pids) ==
  JoinLines(<<Header1, Header2>> \o [i \in 1..Len(pids) |-> DataLine(pids[i])]
            \o <<BlankLine>>)

C6_PidLists == UNION {[1..n -> 1..MaxPid] : n \in 0..MaxLines}

\* the list call under view read exactly this listing from a process that
\* ended without stderr
C6_Listed(pids) ==
  /\ last.op = "list_instances"
  /\ Finished
  /\ last.spawned[1].run.stderr = <<>>
  /\ last.spawned[1].run.stdout = C6_Listing(pids)

\* the launch arguments of pid after its first two tokens: how many
C10_Rest(pid) ==
  IF Len(last.input.table[pid]) > 2 THEN Len(last.input.table[pid]) - 2 ELSE 0

C10_Paired(pid) == pid \in DOMAIN last.input.table /\ C10_Rest(pid) % 2 = 0

\* C4 as stated: when the list reaches a line whose pid is not in the process
\* table, the call raises LKVMException with a "not found" message naming
\* that pid.
C4_AsStated ==
  \A pids \in C6_PidLists : \A i \in 1..Len(pids) :
    (/\ C6_Listed(pids)
     /\ pids[i] \notin DOMAIN last.input.table
     /\ \A j \in 1..(i - 1) : C10_Paired(pids[j]))
      => last.out = Raise("LKVMException",
                          [fmt |-> "PID %s not found", arg |-> pids[i]])

\* C6 as stated: header, N data lines, one blank line, every listed pid in
\* the process table: the call returns N records, in order, the i-th with
\* the pid, name and state of the i-th line.
C6_AsStated ==
  \A pids \in C6_PidLists :
    (/\ C6_Listed(pids)
     /\ \A i \in 1..Len(pids) : pids[i] \in DOMAIN last.input.table)
      => /\ last.out.kind = "return"
         /\ last.out.value.t = "list"
         /\ Len(last.out.value.items) = Len(pids)
         /\ \A i \in 1..Len(pids) :
              /\ last.out.value.items[i][K_pid] = DataFields(pids[i])[1]
              /\ last.out.value.items[i][K_name] = DataFields(pids[i])[2]
              /\ last.out.value.items[i][K_state] = DataFields(pids[i])[3]

\* C10: for a pid in the process table the detail lookup succeeds iff the
\* launch arguments after the first two tokens are even in number.  When the
\* list reaches a line of a process with an odd number, the whole call ends
\* in an exception that is not LKVMException and no record is returned, those
\* of earlier lines included; when every listed process has an even number,
\* the call returns one record per line.
C10_OddArgsFail ==
  last.op = "list_instances" =>
    /\ \A pid \in DOMAIN last.input.table :
         (_get_instance_info(PyText(PidText(pid)), last.input.table).kind = "return")
           <=> C10_Paired(pid)
    /\ \A pids \in C6_PidLists :
         C6_Listed(pids) =>
           /\ \A i \in 1..Len(pids) :
                (/\ pids[i] \in DOMAIN last.input.table
                 /\ ~C10_Paired(pids[i])
                 /\ \A j \in 1..(i - 1) : C10_Paired(pids[j]))
                  => (/\ last.out.kind = "raise"
                      /\ last.out.exc = "IndexError")
           /\ (\A i \in 1..Len(pids) : C10_Paired(pids[i]))
                => (/\ last.out.kind = "return"
                    /\ Len(last.out.value.items) = Len(pids))

C10_Witness ==
  \E pids \in C6_PidLists :
    /\ Len(pids) = 2
    /\ C6_Listed(pids)
    /\ C10_Paired(pids[1])
    /\ C10_Rest(pids[1]) > 0
    /\ pids[2] \in DOMAIN last.input.table
    /\ ~C10_Paired(pids[2])
    /\ last.out.kind = "raise"

====
